---- MODULE Spec2Model ----
(***************************************************************************)
(* The PNG codec of the sprite editor (PngFormat::onLoad, PngFormat::onSave *)
(* in src/app/file/png_format.cpp) and the undoable image replacement       *)
(* command (app::cmd::ReplaceImage in src/app/cmd/replace_image.cpp).       *)
(*                                                                         *)
(* onLoad and onSave are followed statement block by statement block: pc    *)
(* is the position inside the running function.  Every libpng call that     *)
(* can raise png_error either succeeds or reports through report_png_error  *)
(* and longjmps to the setjmp handler of the running function.              *)
(***************************************************************************)
EXTENDS Integers, Sequences, FiniteSets, TLC

(* ------------------------------ bounds -------------------------------- *)
\* widest and tallest image of the explored inputs
MaxWidth == 2
MaxHeight == 2
\* number of cels of the sprite the replacement command works on
MaxCels == 2

(* --------------------------- libpng constants -------------------------- *)
PNG_COLOR_TYPE_GRAY == 0
PNG_COLOR_TYPE_RGB == 2
PNG_COLOR_TYPE_PALETTE == 3
PNG_COLOR_TYPE_GRAY_ALPHA == 4
PNG_COLOR_TYPE_RGB_ALPHA == 6
\* a colour type none of the cases of the switch of onLoad names
PNG_COLOR_TYPE_OTHER == 7
PNG_MAX_PALETTE_LENGTH == 256

(* ------------------------------ pixels --------------------------------- *)
\* doc/color.h: a 32-bit RGBA pixel r | g<<8 | b<<16 | a<<24, kept as its
\* two 16-bit halves <<low, high>> (the whole value exceeds TLC's
\* integers), and a 16-bit gray pixel v | a<<8.
rgba(r, g, b, a) == <<r + g * 256, b + a * 256>>
rgba_getr(c) == c[1] % 256
rgba_getg(c) == (c[1] \div 256) % 256
rgba_getb(c) == c[2] % 256
rgba_geta(c) == (c[2] \div 256) % 256
graya(v, a) == v + a * 256
graya_getv(c) == c % 256
graya_geta(c) == (c \div 256) % 256

\* the pixel format onLoad derives from the colour type (switch, 154-176)
PixelFormatOf(color_type) ==
  CASE color_type \in {PNG_COLOR_TYPE_RGB_ALPHA, PNG_COLOR_TYPE_RGB} -> "IMAGE_RGB"
    [] color_type \in {PNG_COLOR_TYPE_GRAY_ALPHA, PNG_COLOR_TYPE_GRAY} -> "IMAGE_GRAYSCALE"
    [] color_type = PNG_COLOR_TYPE_PALETTE -> "IMAGE_INDEXED"
    [] OTHER -> "none"

\* the colour type onSave derives from the image and the sprite (380-394)
ColorTypeOf(pixelFormat, needAlpha) ==
  CASE pixelFormat = "IMAGE_RGB" ->
         IF needAlpha THEN PNG_COLOR_TYPE_RGB_ALPHA ELSE PNG_COLOR_TYPE_RGB
    [] pixelFormat = "IMAGE_GRAYSCALE" ->
         IF needAlpha THEN PNG_COLOR_TYPE_GRAY_ALPHA ELSE PNG_COLOR_TYPE_GRAY
    [] pixelFormat = "IMAGE_INDEXED" -> PNG_COLOR_TYPE_PALETTE
    [] OTHER -> 0

\* bytes of one pixel on the wire
Channels(color_type) ==
  CASE color_type = PNG_COLOR_TYPE_RGB_ALPHA -> 4
    [] color_type = PNG_COLOR_TYPE_RGB -> 3
    [] color_type = PNG_COLOR_TYPE_GRAY_ALPHA -> 2
    [] OTHER -> 1

\* SaveRowBytes with the alpha byte of an RGBA or gray+alpha pixel written
\* as 255
SaveRowBytesOpaque(row, color_type, width) ==
  [i \in 1..(width * Channels(color_type)) |->
     LET n == Channels(color_type)
         c == row[((i - 1) \div n) + 1]
         k == (i - 1) % n
     IN CASE color_type \in {PNG_COLOR_TYPE_RGB_ALPHA, PNG_COLOR_TYPE_RGB} ->
               (CASE k = 0 -> rgba_getr(c) [] k = 1 -> rgba_getg(c)
                  [] k = 2 -> rgba_getb(c) [] OTHER -> 255)
          [] color_type \in {PNG_COLOR_TYPE_GRAY_ALPHA, PNG_COLOR_TYPE_GRAY} ->
               (IF k = 0 THEN graya_getv(c) ELSE 255)
          [] OTHER -> c]

\* onSave, 450-508: one image row to the bytes of row_pointer
SaveRowBytes(row, color_type, width) ==
  [i \in 1..(width * Channels(color_type)) |->
     LET n == Channels(color_type)
         c == row[((i - 1) \div n) + 1]
         k == (i - 1) % n
     IN CASE color_type = PNG_COLOR_TYPE_RGB_ALPHA ->
               (CASE k = 0 -> rgba_getr(c) [] k = 1 -> rgba_getg(c)
                  [] k = 2 -> rgba_getb(c) [] OTHER -> rgba_geta(c))
          [] color_type = PNG_COLOR_TYPE_RGB ->
               (CASE k = 0 -> rgba_getr(c) [] k = 1 -> rgba_getg(c)
                  [] OTHER -> rgba_getb(c))
          [] color_type = PNG_COLOR_TYPE_GRAY_ALPHA ->
               (IF k = 0 THEN graya_getv(c) ELSE graya_geta(c))
          [] color_type = PNG_COLOR_TYPE_GRAY -> graya_getv(c)
          [] OTHER -> c]

\* CollapseIndex that rewrites the mask entry alone
CollapseOnlyMask(c, pal_alphas, mask_entry) ==
  IF c = mask_entry THEN mask_entry % 256 ELSE c

\* onLoad, 298-303: the index stored for source index c
CollapseIndex(c, pal_alphas, mask_entry) ==
  IF pal_alphas[c] < 128 THEN mask_entry % 256 ELSE c

\* onLoad, 239-305: the bytes of row_pointer to one image row
LoadRowPixels(bytes, color_type, width, pal_alphas, mask_entry) ==
  [x \in 1..width |->
     LET n == Channels(color_type)
         s == (x - 1) * n
     IN CASE color_type = PNG_COLOR_TYPE_RGB_ALPHA ->
               rgba(bytes[s + 1], bytes[s + 2], bytes[s + 3], bytes[s + 4])
          [] color_type = PNG_COLOR_TYPE_RGB ->
               rgba(bytes[s + 1], bytes[s + 2], bytes[s + 3], 255)
          [] color_type = PNG_COLOR_TYPE_GRAY_ALPHA ->
               graya(bytes[s + 1], bytes[s + 2])
          [] color_type = PNG_COLOR_TYPE_GRAY -> graya(bytes[s + 1], 255)
          [] OTHER -> CollapseIndex(bytes[s + 1], pal_alphas, mask_entry)]

(* ------------------------ palette transparency ------------------------- *)
\* onLoad, 188 and 212-213: pal_alphas after the loop over trans
ReadAlphas(trans) ==
  [c \in 0..(PNG_MAX_PALETTE_LENGTH - 1) |->
     IF c < Len(trans) THEN trans[c + 1] ELSE 255]

\* FirstTransparent without the test mask_entry < 0: the last entry wins
RECURSIVE FirstTransparentLast(_, _, _, _)
FirstTransparentLast(trans, lo, hi, mask_entry) ==
  IF lo >= hi THEN mask_entry
  ELSE IF hi = lo + 1
       THEN (IF trans[lo + 1] < 128 THEN lo ELSE mask_entry)
       ELSE LET mid == (lo + hi) \div 2
                right == FirstTransparentLast(trans, mid, hi, -1)
            IN IF right >= 0 THEN right
               ELSE FirstTransparentLast(trans, lo, mid, mask_entry)

\* onLoad, 212-221: mask_entry after the turns i = lo .. hi-1 of the loop
\* over trans.  A turn changes mask_entry only while it is negative, so the
\* turns are taken in two halves and the second half is skipped once the
\* first has set it (this keeps the evaluation of 256 turns shallow).
RECURSIVE FirstTransparent(_, _, _, _)
FirstTransparent(trans, lo, hi, mask_entry) ==
  IF lo >= hi THEN mask_entry
  ELSE IF hi = lo + 1
       THEN (IF trans[lo + 1] < 128 /\ mask_entry < 0 THEN lo ELSE mask_entry)
       ELSE LET mid == (lo + hi) \div 2
                left == FirstTransparent(trans, lo, mid, mask_entry)
            IN IF left >= 0 THEN left
               ELSE FirstTransparent(trans, mid, hi, left)

\* onLoad, 215-216: whether the loop over trans sets fop->seq.has_alpha
AnyTransparent(trans) == \E i \in 1..Len(trans) : trans[i] < 128

\* SaveTrans with num_trans = mask_entry
SaveTransShort(mask_entry) ==
  [c \in 1..mask_entry |-> IF c - 1 = mask_entry THEN 0 ELSE 255]

\* onSave, 421-426: the tRNS table written for mask_entry
SaveTrans(mask_entry) ==
  [c \in 1..(mask_entry + 1) |-> IF c - 1 = mask_entry THEN 0 ELSE 255]

\* fop_sequence_set_color, fop_sequence_get_color (app/file/file.cpp): an
\* entry of fop->seq.palette is the triple of the r, g, b it was set with
fop_sequence_set_color(r, g, b) == <<r, g, b>>
fop_sequence_get_color(palette, c) == palette[c]

\* onLoad, 196-204: the palette of the sprite after the PLTE chunk is read
ReadPalette(plte) ==
  [c \in 0..(PNG_MAX_PALETTE_LENGTH - 1) |->
     IF c < Len(plte)
     THEN fop_sequence_set_color(plte[c + 1][1], plte[c + 1][2], plte[c + 1][3])
     ELSE fop_sequence_set_color(0, 0, 0)]

\* SavePalette with the red and the blue channel of every entry exchanged
SavePaletteBGR(palette) ==
  [c \in 1..PNG_MAX_PALETTE_LENGTH |->
     <<palette[c - 1][3], palette[c - 1][2], palette[c - 1][1]>>]

\* onSave, 407-413: the PLTE chunk written from the palette of the sprite
SavePalette(palette) ==
  [c \in 1..PNG_MAX_PALETTE_LENGTH |-> fop_sequence_get_color(palette, c - 1)]

(* ------------------------- the explored inputs ------------------------- *)
\* pixel values of the explored images, per pixel format; the indexed ones
\* are palette indices
Samples(pixelFormat) ==
  CASE pixelFormat = "IMAGE_RGB" -> {rgba(1, 2, 3, 4), rgba(255, 128, 0, 255)}
    [] pixelFormat = "IMAGE_GRAYSCALE" -> {graya(5, 6), graya(255, 255)}
    [] OTHER -> {2, 4}

\* the rows of the explored images: every row of one or two pixels, and
\* the wider rows that repeat two pixels
PixelRows(pixelFormat, w) ==
  {[x \in 1..w |-> IF x % 2 = 1 THEN a ELSE b] :
     a \in Samples(pixelFormat), b \in Samples(pixelFormat)}

Images(pixelFormat, W, H) ==
  UNION {UNION {{[format |-> pixelFormat, w |-> w, h |-> h, rows |-> r] :
                   r \in [1..h -> PixelRows(pixelFormat, w)]} :
                h \in H} : w \in W}

NoImage == [format |-> "none", w |-> 0, h |-> 0, rows |-> <<>>]

\* the rows png_read_row can deliver for a file that onSave did not write
WireRows(color_type, w) ==
  {SaveRowBytes(r, color_type, w) : r \in PixelRows(PixelFormatOf(color_type), w)}

\* tRNS tables of the explored files; the second is the table
\* [255,255,0,255,50,255]; <<>> is a file without a tRNS chunk
TransSamples ==
  {<<>>, <<255, 255, 0, 255, 50, 255>>, <<255, 255, 255>>, <<0>>,
   <<255, 127, 128>>, <<128, 255, 255, 255, 127>>, <<255, 128, 0>>}

\* the PLTE chunk of the explored files: 8 colours
PlteSample == [i \in 1..8 |-> <<i, 2 * i, 255 - i>>]

\* the transparent colour of the sprite that a load starts with
MaskSamples == {0, 1}

DefaultPalette == [c \in 0..(PNG_MAX_PALETTE_LENGTH - 1) |-> <<0, 0, 0>>]
PaletteSample == [c \in 0..(PNG_MAX_PALETTE_LENGTH - 1) |-> <<c, 255 - c, c % 7>>]

\* the palettes of the sprites whose indexed images are saved
PaletteSamples ==
  {PaletteSample,
   [c \in 0..(PNG_MAX_PALETTE_LENGTH - 1) |-> <<255 - c, (3 * c) % 256, 255>>]}

NoFile ==
  [foreign |-> FALSE, complete |-> FALSE, color_type |-> 0, width |-> 0,
   height |-> 0, interlace |-> FALSE, plte |-> <<>>, trans |-> <<>>,
   rows |-> <<>>]

ForeignFiles ==
  {[foreign |-> TRUE, complete |-> TRUE, color_type |-> ct, width |-> w,
    height |-> h, interlace |-> il,
    plte |-> IF ct = PNG_COLOR_TYPE_PALETTE THEN PlteSample ELSE <<>>,
    trans |-> t, rows |-> <<>>] :
     ct \in {PNG_COLOR_TYPE_GRAY, PNG_COLOR_TYPE_RGB, PNG_COLOR_TYPE_GRAY_ALPHA,
             PNG_COLOR_TYPE_RGB_ALPHA, PNG_COLOR_TYPE_OTHER},
     w \in 1..MaxWidth, h \in 1..MaxHeight, il \in BOOLEAN, t \in {<<>>}}
  \cup
  {[foreign |-> TRUE, complete |-> TRUE, color_type |-> PNG_COLOR_TYPE_PALETTE,
    width |-> w, height |-> h, interlace |-> il, plte |-> PlteSample,
    trans |-> t, rows |-> <<>>] :
     w \in 1..MaxWidth, h \in 1..MaxHeight, il \in BOOLEAN, t \in TransSamples}

(* ------------------------------- state --------------------------------- *)
VARIABLES
  pc,        \* position inside onLoad / onSave, "done" after the return
  op,        \* the function that runs or ran: "load" or "save"
  ret,       \* how it returned: "none", "true", "false", "exception"
  fop,       \* the FileOp: seq.image, seq.palette, seq.has_alpha, error, stop, progress
  sprite,    \* fop->document->sprite(): transparentColor, needAlpha, backgroundLayer
  file,      \* the PNG file on disk
  res,       \* what the running function holds: file handle, libpng structs, png_malloc blocks
  l,         \* the locals of the running function
  g,         \* history: the saved image, the rows read, the calls of png_read_row
  cels,      \* the cels of the sprite of the command: cel -> image (id, pixels)
  cmd,       \* the ReplaceImage instance: m_oldImageId, m_newImageId, m_newImage, m_copy
  last,      \* the last call on the command
  asserts    \* whether every ASSERT evaluated so far held

codecVars == <<pc, op, ret, fop, sprite, file, res, l, g>>
cmdVars == <<cels, cmd, last, asserts>>
vars == <<pc, op, ret, fop, sprite, file, res, l, g, cels, cmd, last, asserts>>

NoRes ==
  [handle |-> FALSE, png_ptr |-> FALSE, info_ptr |-> FALSE,
   row_pointer |-> FALSE, palette |-> FALSE, trans |-> FALSE]

NoLocals ==
  [width |-> 0, height |-> 0, color_type |-> 0, number_passes |-> 0,
   pass |-> 0, y |-> 0, pal_alphas |-> <<>>, mask_entry |-> -1,
   plte |-> <<>>, trans |-> <<>>]

NoHistory ==
  [saved |-> NoImage, savedPalette |-> <<>>, savedAlpha |-> FALSE,
   savedMask |-> 0,
   savedBackground |-> FALSE, roundtrip |-> FALSE, mask0 |-> 0,
   src |-> <<>>, nreads |-> 0, stopSeen |-> FALSE, failure |-> "none"]

NewFop(image, palette) ==
  [image |-> image, palette |-> palette, has_alpha |-> FALSE, error |-> <<>>,
   stop |-> FALSE, progress |-> <<0, 1>>]

\* fop_error(fop, msg): the message is appended to the error text of fop
fop_error(f, msg) == [f EXCEPT !.error = Append(@, msg)]

\* report_png_error, 56-59: the error callback libpng calls before it longjmps
report_png_error(f) == fop_error(f, "libpng: error")

(* ------------------------- libpng, as onLoad uses it ------------------- *)
\* png_set_interlace_handling, 146: 7 passes for an Adam7 file, else 1
png_set_interlace_handling(f) == IF f.interlace THEN 7 ELSE 1

\* png_get_PLTE, 193: the number of palette entries, 0 without a PLTE chunk
png_get_PLTE(f) == Len(f.plte)

\* png_get_tRNS, 207-210: the tRNS table, empty (num_trans = 0) without one
png_get_tRNS(f) == f.trans

\* png_read_row, 237: the rows that can arrive in row_pointer for row y.  A
\* file written by onSave delivers what was written; for any other file the
\* bytes are whatever the stream holds.
png_read_row(f, color_type, width, y) ==
  IF f.foreign THEN WireRows(color_type, width) ELSE {f.rows[y + 1]}

\* fop_sequence_image (app/file/file.cpp), as onLoad and onSave use it: the
\* new image is kept in fop->seq.image, the pointer onSave reads at 325, and
\* onLoad only borrows it.  No row of it is written yet.
fop_sequence_image(f, pixelFormat, w, h) ==
  [f EXCEPT !.image = [format |-> pixelFormat, w |-> w, h |-> h,
                       rows |-> [y \in 1..h |-> <<>>]]]

(* ------------------------------- onLoad -------------------------------- *)
\* 74-75: FileHandle handle(open_file_with_exception(fop->filename, "rb"))
LoadOpen ==
  /\ pc = "load_open"
  /\ \/ /\ res' = [res EXCEPT !.handle = TRUE]
        /\ pc' = "load_create_read_struct"
        /\ UNCHANGED <<ret, g>>
     \/ \* the file cannot be opened: the exception leaves onLoad
        /\ pc' = "done"
        /\ ret' = "exception"
        /\ g' = [g EXCEPT !.failure = "open"]
        /\ UNCHANGED res
  /\ UNCHANGED <<op, fop, sprite, file, l, cmdVars>>

\* 83-88: png_create_read_struct
LoadCreateReadStruct ==
  /\ pc = "load_create_read_struct"
  /\ \/ /\ res' = [res EXCEPT !.png_ptr = TRUE]
        /\ pc' = "load_create_info_struct"
        /\ UNCHANGED <<ret, fop, g>>
     \/ /\ fop' = fop_error(fop, "png_create_read_struct")
        /\ res' = [res EXCEPT !.handle = FALSE]
        /\ pc' = "done"
        /\ ret' = "false"
        /\ g' = [g EXCEPT !.failure = "create_struct"]
  /\ UNCHANGED <<op, sprite, file, l, cmdVars>>

\* 91-96: png_create_info_struct
LoadCreateInfoStruct ==
  /\ pc = "load_create_info_struct"
  /\ \/ /\ res' = [res EXCEPT !.info_ptr = TRUE]
        /\ pc' = "load_read_info"
        /\ UNCHANGED <<ret, fop, g>>
     \/ /\ fop' = fop_error(fop, "png_create_info_struct")
        /\ res' = [res EXCEPT !.png_ptr = FALSE, !.handle = FALSE]
        /\ pc' = "done"
        /\ ret' = "false"
        /\ g' = [g EXCEPT !.failure = "create_info"]
  /\ UNCHANGED <<op, sprite, file, l, cmdVars>>

\* 101-151: setjmp, png_init_io, png_read_info, png_get_IHDR, the
\* transformations, png_set_interlace_handling, png_read_update_info
LoadReadInfo ==
  /\ pc = "load_read_info"
  /\ \/ /\ l' = [l EXCEPT !.width = file.width, !.height = file.height,
                          !.color_type = file.color_type,
                          !.number_passes = png_set_interlace_handling(file)]
        /\ pc' = "load_switch"
        /\ UNCHANGED fop
     \/ \* png_read_info raises png_error
        /\ fop' = report_png_error(fop)
        /\ pc' = "load_longjmp"
        /\ UNCHANGED l
  /\ UNCHANGED <<op, ret, sprite, file, res, g, cmdVars>>

\* 154-176: the switch on the colour type
LoadSwitch ==
  /\ pc = "load_switch"
  /\ IF PixelFormatOf(l.color_type) = "none"
     THEN /\ fop' = fop_error(fop, "Color type not supported")
          /\ res' = [res EXCEPT !.png_ptr = FALSE, !.info_ptr = FALSE,
                                !.handle = FALSE]
          /\ pc' = "done"
          /\ ret' = "false"
          /\ g' = [g EXCEPT !.failure = "color_type"]
     ELSE /\ fop' = [fop EXCEPT !.has_alpha =
                       @ \/ l.color_type \in {PNG_COLOR_TYPE_RGB_ALPHA,
                                              PNG_COLOR_TYPE_GRAY_ALPHA}]
          /\ pc' = "load_image"
          /\ UNCHANGED <<res, ret, g>>
  /\ UNCHANGED <<op, sprite, file, l, cmdVars>>

\* 178-185: fop_sequence_image
LoadImage ==
  /\ pc = "load_image"
  /\ \/ /\ fop' = fop_sequence_image(fop, PixelFormatOf(l.color_type),
                                     file.width, file.height)
        /\ g' = [g EXCEPT !.src = [y \in 1..file.height |-> <<>>]]
        /\ pc' = "load_palette"
        /\ UNCHANGED <<res, ret>>
     \/ \* fop_sequence_image returns NULL
        /\ fop' = fop_error(fop, "file_sequence_image")
        /\ res' = [res EXCEPT !.png_ptr = FALSE, !.info_ptr = FALSE,
                              !.handle = FALSE]
        /\ pc' = "done"
        /\ ret' = "false"
        /\ g' = [g EXCEPT !.failure = "factory"]
  /\ UNCHANGED <<op, sprite, file, l, cmdVars>>

\* 224-225: the transparent colour of the sprite after the palette block
PublishMask(transparentColor, mask_entry) ==
  IF mask_entry >= 0 THEN mask_entry ELSE transparentColor

\* 187-228: pal_alphas, the palette, the tRNS table, the mask entry
LoadPalette ==
  /\ pc = "load_palette"
  /\ LET isPalette == /\ l.color_type = PNG_COLOR_TYPE_PALETTE
                      /\ png_get_PLTE(file) # 0
         trans == IF isPalette THEN png_get_tRNS(file) ELSE <<>>
         mask_entry == FirstTransparent(trans, 0, Len(trans), -1)
         tc == IF isPalette
               THEN PublishMask(sprite.transparentColor, mask_entry)
               ELSE sprite.transparentColor
     IN /\ fop' = [fop EXCEPT
                     !.palette = IF isPalette THEN ReadPalette(file.plte) ELSE @,
                     !.has_alpha = @ \/ AnyTransparent(trans)]
        /\ sprite' = [sprite EXCEPT !.transparentColor = tc]
        /\ l' = [l EXCEPT !.pal_alphas = ReadAlphas(trans), !.mask_entry = tc]
  /\ pc' = "load_malloc_row"
  /\ UNCHANGED <<op, ret, file, res, g, cmdVars>>

\* 233: row_pointer = png_malloc(...)
LoadMallocRow ==
  /\ pc = "load_malloc_row"
  /\ \/ /\ res' = [res EXCEPT !.row_pointer = TRUE]
        /\ l' = [l EXCEPT !.pass = 0, !.y = 0]
        /\ pc' = "load_row"
        /\ UNCHANGED fop
     \/ \* png_malloc raises png_error
        /\ fop' = report_png_error(fop)
        /\ pc' = "load_longjmp"
        /\ UNCHANGED <<res, l>>
  /\ UNCHANGED <<op, ret, sprite, file, g, cmdVars>>

\* 311-312: what follows the check of fop_is_stop after a row
AfterRow(stop, loc) ==
  IF stop \/ loc.y + 1 >= loc.height
  THEN [loc EXCEPT !.pass = @ + 1, !.y = 0]
  ELSE [loc EXCEPT !.y = @ + 1]

\* 234-313: one turn of the row loop: png_read_row, the conversion of the
\* row, fop_progress, fop_is_stop, and the loop heads that follow
LoadRow ==
  /\ pc = "load_row"
  /\ \/ \E bytes \in png_read_row(file, l.color_type, l.width, l.y) :
          LET row == LoadRowPixels(bytes, l.color_type, l.width,
                                   l.pal_alphas, l.mask_entry)
              next == AfterRow(fop.stop, l)
          IN /\ fop' = [fop EXCEPT
                          !.image.rows[l.y + 1] = row,
                          !.progress = <<l.pass * l.height + l.y + 1,
                                         l.height * l.number_passes>>]
             /\ g' = [g EXCEPT !.src[l.y + 1] = bytes, !.nreads = @ + 1,
                               !.stopSeen = @ \/ fop.stop]
             /\ l' = next
             /\ pc' = IF next.pass >= l.number_passes
                      THEN "load_finish" ELSE "load_row"
     \/ \* png_read_row raises png_error
        /\ fop' = report_png_error(fop)
        /\ pc' = "load_longjmp"
        /\ UNCHANGED <<l, g>>
  /\ UNCHANGED <<op, ret, sprite, file, res, cmdVars>>

\* 315-319: png_free(row_pointer), png_destroy_read_struct, return true
LoadFinish ==
  /\ pc = "load_finish"
  /\ res' = [res EXCEPT !.row_pointer = FALSE, !.png_ptr = FALSE,
                        !.info_ptr = FALSE, !.handle = FALSE]
  /\ pc' = "done"
  /\ ret' = "true"
  /\ UNCHANGED <<op, fop, sprite, file, l, g, cmdVars>>

\* 101-107: the setjmp handler
LoadLongjmp ==
  /\ pc = "load_longjmp"
  /\ fop' = fop_error(fop, "Error reading PNG file")
  /\ res' = [res EXCEPT !.png_ptr = FALSE, !.info_ptr = FALSE,
                        !.handle = FALSE]
  /\ pc' = "done"
  /\ ret' = "false"
  /\ g' = [g EXCEPT !.failure = "stream"]
  /\ UNCHANGED <<op, sprite, file, l, cmdVars>>

\* the caller's thread asks the running operation to stop (fop_stop)
RequestStop ==
  /\ pc \notin {"idle", "done"}
  /\ ~fop.stop
  /\ fop' = [fop EXCEPT !.stop = TRUE]
  /\ UNCHANGED <<pc, op, ret, sprite, file, res, l, g, cmdVars>>

(* ------------------------------- onSave -------------------------------- *)
\* 335-336: FileHandle handle(open_file_with_exception(fop->filename, "wb"))
SaveOpen ==
  /\ pc = "save_open"
  /\ \/ /\ res' = [res EXCEPT !.handle = TRUE]
        /\ file' = NoFile
        /\ pc' = "save_create_write_struct"
        /\ UNCHANGED <<ret, g>>
     \/ \* the file cannot be opened: the exception leaves onSave
        /\ pc' = "done"
        /\ ret' = "exception"
        /\ g' = [g EXCEPT !.failure = "open"]
        /\ UNCHANGED <<res, file>>
  /\ UNCHANGED <<op, fop, sprite, l, cmdVars>>

\* 344-348: png_create_write_struct
SaveCreateWriteStruct ==
  /\ pc = "save_create_write_struct"
  /\ \/ /\ res' = [res EXCEPT !.png_ptr = TRUE]
        /\ pc' = "save_create_info_struct"
        /\ UNCHANGED <<ret, g>>
     \/ /\ res' = [res EXCEPT !.handle = FALSE]
        /\ pc' = "done"
        /\ ret' = "false"
        /\ g' = [g EXCEPT !.failure = "create_struct"]
  /\ UNCHANGED <<op, fop, sprite, file, l, cmdVars>>

\* 351-355: png_create_info_struct
SaveCreateInfoStruct ==
  /\ pc = "save_create_info_struct"
  /\ \/ /\ res' = [res EXCEPT !.info_ptr = TRUE]
        /\ pc' = "save_ihdr"
        /\ UNCHANGED <<ret, g>>
     \/ /\ res' = [res EXCEPT !.png_ptr = FALSE, !.handle = FALSE]
        /\ pc' = "done"
        /\ ret' = "false"
        /\ g' = [g EXCEPT !.failure = "create_info"]
  /\ UNCHANGED <<op, fop, sprite, file, l, cmdVars>>

\* 360-397: setjmp, png_init_io, width, height, the colour type, png_set_IHDR
SaveIHDR ==
  /\ pc = "save_ihdr"
  /\ l' = [l EXCEPT !.width = fop.image.w, !.height = fop.image.h,
                    !.color_type = ColorTypeOf(fop.image.format,
                                               sprite.needAlpha)]
  /\ pc' = "save_palette"
  /\ UNCHANGED <<op, ret, fop, sprite, file, res, g, cmdVars>>

\* 399-431: the palette and the tRNS table of an indexed image
SavePLTE ==
  /\ pc = "save_palette"
  /\ IF fop.image.format = "IMAGE_INDEXED"
     THEN \/ /\ res' = [res EXCEPT !.palette = TRUE]
             /\ l' = [l EXCEPT
                        !.plte = SavePalette(fop.palette),
                        !.trans = IF ~sprite.backgroundLayer
                                  THEN SaveTrans(sprite.transparentColor)
                                  ELSE <<>>]
             /\ pc' = "save_write_info"
             /\ UNCHANGED fop
          \/ \* png_malloc of the palette raises png_error
             /\ fop' = report_png_error(fop)
             /\ pc' = "save_longjmp"
             /\ UNCHANGED <<res, l>>
          \/ \* png_set_PLTE or png_malloc of trans raises png_error
             /\ res' = [res EXCEPT !.palette = TRUE]
             /\ fop' = report_png_error(fop)
             /\ pc' = "save_longjmp"
             /\ UNCHANGED l
     ELSE /\ pc' = "save_write_info"
          /\ UNCHANGED <<res, l, fop>>
  /\ UNCHANGED <<op, ret, sprite, file, g, cmdVars>>

\* 434-442: png_write_info, png_set_packing, row_pointer = png_malloc(...)
SaveWriteInfo ==
  /\ pc = "save_write_info"
  /\ LET header == [foreign |-> FALSE, complete |-> FALSE,
                    color_type |-> l.color_type, width |-> l.width,
                    height |-> l.height, interlace |-> FALSE,
                    plte |-> l.plte, trans |-> l.trans, rows |-> <<>>]
     IN \/ /\ file' = header
           /\ res' = [res EXCEPT !.row_pointer = TRUE]
           /\ l' = [l EXCEPT !.number_passes = 1, !.pass = 0, !.y = 0]
           /\ pc' = "save_row"
           /\ UNCHANGED fop
        \/ \* png_write_info raises png_error
           /\ fop' = report_png_error(fop)
           /\ pc' = "save_longjmp"
           /\ UNCHANGED <<file, res, l>>
        \/ \* png_malloc of the row raises png_error
           /\ file' = header
           /\ fop' = report_png_error(fop)
           /\ pc' = "save_longjmp"
           /\ UNCHANGED <<res, l>>
  /\ UNCHANGED <<op, ret, sprite, g, cmdVars>>

\* 447-516: one turn of the row loop: the conversion of the row,
\* png_write_rows, fop_progress, and the loop heads that follow
SaveRow ==
  /\ pc = "save_row"
  /\ \/ /\ file' = [file EXCEPT !.rows =
                      Append(@, SaveRowBytes(fop.image.rows[l.y + 1],
                                             l.color_type, l.width))]
        /\ fop' = [fop EXCEPT !.progress =
                     <<l.pass * l.height + l.y + 1, l.height * l.number_passes>>]
        /\ l' = AfterRow(FALSE, l)
        /\ pc' = IF l.y + 1 >= l.height THEN "save_finish" ELSE "save_row"
     \/ \* png_write_rows raises png_error
        /\ fop' = report_png_error(fop)
        /\ pc' = "save_longjmp"
        /\ UNCHANGED <<file, l>>
  /\ UNCHANGED <<op, ret, sprite, res, g, cmdVars>>

\* 519-538: png_free(row_pointer), png_write_end, png_free(palette),
\* png_destroy_write_struct, return true
SaveFinish ==
  /\ pc = "save_finish"
  /\ \/ /\ file' = [file EXCEPT !.complete = TRUE]
        /\ res' = NoRes
        /\ pc' = "done"
        /\ ret' = "true"
        /\ UNCHANGED fop
     \/ \* png_write_end raises png_error
        /\ res' = [res EXCEPT !.row_pointer = FALSE]
        /\ fop' = report_png_error(fop)
        /\ pc' = "save_longjmp"
        /\ UNCHANGED <<file, ret>>
  /\ UNCHANGED <<op, sprite, l, g, cmdVars>>

\* 360-364: the setjmp handler
SaveLongjmp ==
  /\ pc = "save_longjmp"
  /\ res' = [res EXCEPT !.png_ptr = FALSE, !.info_ptr = FALSE,
                        !.handle = FALSE]
  /\ pc' = "done"
  /\ ret' = "false"
  /\ g' = [g EXCEPT !.failure = "stream"]
  /\ UNCHANGED <<op, fop, sprite, file, l, cmdVars>>

\* the file onSave wrote is loaded again, by a new FileOp
LoadSaved ==
  /\ pc = "done" /\ op = "save" /\ ret = "true"
  /\ \E m \in MaskSamples :
       /\ sprite' = [transparentColor |-> m, needAlpha |-> FALSE,
                     backgroundLayer |-> FALSE]
       /\ g' = [g EXCEPT !.roundtrip = TRUE, !.mask0 = m]
  /\ fop' = NewFop(NoImage, DefaultPalette)
  /\ l' = NoLocals
  /\ pc' = "load_open"
  /\ op' = "load"
  /\ ret' = "none"
  /\ UNCHANGED <<file, res, cmdVars>>

(* ---------------------------- ReplaceImage ----------------------------- *)
\* an Image as the command sees it: its object id and its pixels; id 0 is an
\* image that was given no id yet, NullImage a null ImageRef
NullImage == [id |-> 0, pix |-> <<>>]

\* Sprite::getImageRef (doc/sprite.cpp): the image with this id that a cel
\* of the sprite shows, or a null reference
getImageRef(cs, id) ==
  IF \E c \in DOMAIN cs : cs[c].id = id
  THEN cs[CHOOSE c \in DOMAIN cs :
            /\ cs[c].id = id
            /\ \A d \in DOMAIN cs : cs[d].id = id => c <= d]
  ELSE NullImage

\* Sprite::replaceImage (doc/sprite.cpp): every cel that shows the image with
\* id curImageId shows newImage instead
replaceImage(cs, curImageId, newImage) ==
  [c \in DOMAIN cs |-> IF cs[c].id = curImageId THEN newImage ELSE cs[c]]

\* Image::createCopy (doc/image.cpp): a new object with the same pixels
createCopy(image) == [id |-> 0, pix |-> image.pix]

\* Object::setId (doc/object.cpp)
setId(image, id) == [image EXCEPT !.id = id]

\* UndoStamp without the call of setId
UndoStampKeepsId(c) == c.m_copy

\* RedoStamp with the id of the old image
RedoStampOldId(c) == setId(c.m_copy, c.m_oldImageId)

\* onUndo, 51: m_copy re-stamped before it is bound again
UndoStamp(c) == setId(c.m_copy, c.m_oldImageId)

\* onRedo, 62: m_copy re-stamped before it is bound again
RedoStamp(c) == setId(c.m_copy, c.m_newImageId)

\* 33-44
onExecute ==
  /\ last.call = "construct"
  /\ LET oldImage == getImageRef(cels, cmd.m_oldImageId)
     IN /\ asserts' = (asserts /\ oldImage # NullImage)
        /\ cels' = replaceImage(cels, cmd.m_oldImageId, cmd.m_newImage)
        /\ cmd' = [cmd EXCEPT !.m_copy = createCopy(oldImage),
                              !.m_newImage = NullImage]
  /\ last' = [last EXCEPT !.call = "execute"]
  /\ UNCHANGED codecVars

\* 46-55
onUndo ==
  /\ last.call \in {"execute", "redo"}
  /\ LET newImage == getImageRef(cels, cmd.m_newImageId)
     IN /\ asserts' = (/\ asserts
                       /\ newImage # NullImage
                       /\ getImageRef(cels, cmd.m_oldImageId) = NullImage)
        /\ cels' = replaceImage(cels, cmd.m_newImageId, UndoStamp(cmd))
        /\ cmd' = [cmd EXCEPT !.m_copy = createCopy(newImage)]
  /\ last' = [last EXCEPT !.call = "undo"]
  /\ UNCHANGED codecVars

\* 57-66
onRedo ==
  /\ last.call = "undo"
  /\ LET oldImage == getImageRef(cels, cmd.m_oldImageId)
     IN /\ asserts' = (/\ asserts
                       /\ oldImage # NullImage
                       /\ getImageRef(cels, cmd.m_newImageId) = NullImage)
        /\ cels' = replaceImage(cels, cmd.m_oldImageId, RedoStamp(cmd))
        /\ cmd' = [cmd EXCEPT !.m_copy = createCopy(oldImage)]
  /\ last' = [last EXCEPT !.call = "redo"]
  /\ UNCHANGED codecVars

(* ------------------------------ behaviours ----------------------------- *)
NoCommand ==
  [m_oldImageId |-> 0, m_newImageId |-> 0, m_newImage |-> NullImage,
   m_copy |-> NullImage]

CmdIdle ==
  /\ cels = <<>>
  /\ cmd = NoCommand
  /\ last = [call |-> "none", old |-> <<>>, new |-> <<>>]
  /\ asserts = TRUE

CodecIdle ==
  /\ pc = "idle" /\ op = "none" /\ ret = "none"
  /\ fop = NewFop(NoImage, DefaultPalette)
  /\ sprite = [transparentColor |-> 0, needAlpha |-> FALSE,
               backgroundLayer |-> FALSE]
  /\ file = NoFile /\ res = NoRes /\ l = NoLocals /\ g = NoHistory

\* the image, the palette and the sprite a save starts from
InitSave ==
  /\ pc = "save_open" /\ op = "save" /\ ret = "none"
  /\ file = NoFile /\ res = NoRes /\ l = NoLocals
  /\ \/ \E fmt \in {"IMAGE_RGB", "IMAGE_GRAYSCALE"}, needAlpha \in BOOLEAN :
          /\ fop \in {NewFop(i, DefaultPalette) :
                        i \in Images(fmt, 1..MaxWidth, 1..MaxHeight)}
          /\ sprite = [transparentColor |-> 0, needAlpha |-> needAlpha,
                       backgroundLayer |-> ~needAlpha]
     \/ \E m \in {0, 2}, bg \in BOOLEAN :
          /\ fop \in {NewFop(i, PaletteSample) :
                        i \in Images("IMAGE_INDEXED", 1..MaxWidth, 1..MaxHeight)}
                      \cup
                      {NewFop(i, pal) :
                         i \in Images("IMAGE_INDEXED", {1}, {1}),
                         pal \in PaletteSamples}
          /\ sprite = [transparentColor |-> m, needAlpha |-> FALSE,
                       backgroundLayer |-> bg]
     \/ \E m \in 0..(PNG_MAX_PALETTE_LENGTH - 1) :
          /\ fop \in {NewFop(i, PaletteSample) :
                        i \in Images("IMAGE_INDEXED", {1}, {1})}
          /\ sprite = [transparentColor |-> m, needAlpha |-> FALSE,
                       backgroundLayer |-> FALSE]
  /\ g = [NoHistory EXCEPT !.saved = fop.image,
                           !.savedPalette = fop.palette,
                           !.savedAlpha = sprite.needAlpha,
                           !.savedMask = sprite.transparentColor,
                           !.savedBackground = sprite.backgroundLayer]

\* a PNG file that some other program wrote, and the sprite that loads it
InitLoad ==
  /\ pc = "load_open" /\ op = "load" /\ ret = "none"
  /\ file \in ForeignFiles
  /\ res = NoRes /\ l = NoLocals
  /\ fop = NewFop(NoImage, DefaultPalette)
  /\ \E m \in MaskSamples :
       /\ file.color_type # PNG_COLOR_TYPE_PALETTE => m = 0
       /\ sprite = [transparentColor |-> m, needAlpha |-> FALSE,
                    backgroundLayer |-> FALSE]
       /\ g = [NoHistory EXCEPT !.mask0 = m]

Init == (InitSave \/ InitLoad) /\ CmdIdle

Next ==
  \/ LoadOpen \/ LoadCreateReadStruct \/ LoadCreateInfoStruct \/ LoadReadInfo
  \/ LoadSwitch \/ LoadImage \/ LoadPalette \/ LoadMallocRow \/ LoadRow
  \/ LoadFinish \/ LoadLongjmp \/ RequestStop
  \/ SaveOpen \/ SaveCreateWriteStruct \/ SaveCreateInfoStruct \/ SaveIHDR
  \/ SavePLTE \/ SaveWriteInfo \/ SaveRow \/ SaveFinish \/ SaveLongjmp
  \/ LoadSaved

Spec == Init /\ [][Next]_vars

\* the sprite of the command: MaxCels cels at most, one of them at least
\* showing the image to replace, the others an image of their own
InitReplace ==
  /\ CodecIdle
  /\ \E ids \in {t \in [1..3 -> 1..3] : Cardinality({t[1], t[2], t[3]}) = 3},
        n \in 1..MaxCels,
        oldPix \in [1..2 -> {0, 1}], newPix \in [1..2 -> {0, 1}],
        otherPix \in [1..2 -> {0, 1}] :
       \E shows \in [1..n -> {ids[1], ids[3]}] :
         /\ \E c \in 1..n : shows[c] = ids[1]
         /\ cels = [c \in 1..n |->
                      IF shows[c] = ids[1]
                      THEN [id |-> ids[1], pix |-> oldPix]
                      ELSE [id |-> ids[3], pix |-> otherPix]]
         /\ cmd = [m_oldImageId |-> ids[1], m_newImageId |-> ids[2],
                   m_newImage |-> [id |-> ids[2], pix |-> newPix],
                   m_copy |-> NullImage]
         /\ last = [call |-> "construct", old |-> oldPix, new |-> newPix]
  /\ asserts = TRUE

NextReplace == onExecute \/ onUndo \/ onRedo

SpecReplace == InitReplace /\ [][NextReplace]_vars

(* ------------------------------- claims -------------------------------- *)
\* a load that ran to its last row without seeing the stop flag
LoadCompleted ==
  pc = "done" /\ op = "load" /\ ret = "true" /\ ~g.stopSeen

\* C1: with needAlpha true, loading the file that onSave wrote from an RGB or
\* a grayscale image gives an image of the same format, width and height
\* whose every pixel, alpha included, is the pixel that was saved.
C1_RoundTripExact ==
  (/\ LoadCompleted
   /\ g.roundtrip
   /\ g.savedAlpha
   /\ g.saved.format \in {"IMAGE_RGB", "IMAGE_GRAYSCALE"})
  => fop.image = g.saved

\* an RGB image of 2x2 pixels, one of them with alpha 4, came back
C1_Witness ==
  /\ LoadCompleted /\ g.roundtrip /\ g.savedAlpha
  /\ g.saved.format = "IMAGE_RGB" /\ g.saved.w = 2 /\ g.saved.h = 2
  /\ g.saved.rows[2][1] = rgba(1, 2, 3, 4)
  /\ g.saved.rows[1][1] = rgba(255, 128, 0, 255)
  /\ fop.image = g.saved

\* the lowest index of a tRNS table with an entry below 128, else -1
LowestTransparent(trans) ==
  IF \E i \in 1..Len(trans) : trans[i] < 128
  THEN CHOOSE i \in 0..(Len(trans) - 1) :
         /\ trans[i + 1] < 128
         /\ \A j \in 0..(i - 1) : trans[j + 1] >= 128
  ELSE -1

\* the palette block of onLoad (187-228) has run
PaletteBlockDone == op = "load" /\ l.pal_alphas # <<>>

\* C2: while an indexed image is loaded, the transparent colour of the sprite
\* is, once the palette block has run, the lowest index whose tRNS entry is
\* below 128; it is the transparent colour the sprite had before the load
\* when no entry is below 128 or the file has no tRNS table, and before the
\* palette block runs.
C2_MaskIndexLowest ==
  (op = "load" /\ file.color_type = PNG_COLOR_TYPE_PALETTE)
  => sprite.transparentColor =
       IF PaletteBlockDone /\ LowestTransparent(file.trans) >= 0
       THEN LowestTransparent(file.trans)
       ELSE g.mask0

\* the table [255,255,0,255,50,255] gave mask index 2 to a sprite that had 1
C2_Witness ==
  /\ LoadCompleted
  /\ file.color_type = PNG_COLOR_TYPE_PALETTE
  /\ file.trans = <<255, 255, 0, 255, 50, 255>>
  /\ g.mask0 = 1
  /\ sprite.transparentColor = 2

\* the alpha of palette index c in the tRNS table of the file
TransAlpha(c) == IF c < Len(file.trans) THEN file.trans[c + 1] ELSE 255

\* C3: after a completed load of an indexed image, every pixel whose source
\* index (the byte read for it) has alpha below 128 holds the transparent
\* colour of the sprite, every other pixel holds its source index, and no
\* pixel holds an index with alpha below 128 other than the transparent colour.
C3_IndexedCollapse ==
  (LoadCompleted /\ file.color_type = PNG_COLOR_TYPE_PALETTE)
  => \A y \in 1..fop.image.h : \A x \in 1..fop.image.w :
       LET c == g.src[y][x]
           p == fop.image.rows[y][x]
       IN /\ TransAlpha(c) < 128 => p = sprite.transparentColor
          /\ TransAlpha(c) >= 128 => p = c
          /\ TransAlpha(p) < 128 => p = sprite.transparentColor

\* with the table [255,255,0,255,50,255] a row of source indices 4, 2 was
\* stored as 2, 2
C3_Witness ==
  /\ LoadCompleted
  /\ file.color_type = PNG_COLOR_TYPE_PALETTE
  /\ file.trans = <<255, 255, 0, 255, 50, 255>>
  /\ fop.image.w = 2
  /\ g.src[1] = <<4, 2>>
  /\ fop.image.rows[1] = <<2, 2>>

\* the file holds the header onSave wrote for an indexed image of a sprite
\* without a background layer
SavedIndexedHeader ==
  /\ ~file.foreign
  /\ file.color_type = PNG_COLOR_TYPE_PALETTE
  /\ ~g.savedBackground

\* C4: the tRNS table onSave writes for an indexed image of a sprite without
\* background layer and with transparent colour m has m+1 entries, entry m is
\* 0 and the entries before it are 255; the mask resolution of onLoad on that
\* table gives m, and a load of the file sets the transparent colour to m.
C4_SavedTransTable ==
  SavedIndexedHeader
  => /\ Len(file.trans) = g.savedMask + 1
     /\ file.trans[g.savedMask + 1] = 0
     /\ \A c \in 1..g.savedMask : file.trans[c] = 255
     /\ FirstTransparent(file.trans, 0, Len(file.trans), -1) = g.savedMask
     /\ PaletteBlockDone => sprite.transparentColor = g.savedMask

\* the table for transparent colour 255 was written and loaded again
C4_Witness ==
  /\ SavedIndexedHeader
  /\ g.savedMask = 255
  /\ Len(file.trans) = 256
  /\ LoadCompleted
  /\ g.mask0 = 1
  /\ sprite.transparentColor = 255

\* C5: once onLoad has found the stop flag set after a row, no further row
\* is read from the stream or written to the image, in this pass or a later
\* one, and onLoad returns true.
C5_CancelStopsDecode ==
  [][(op = "load" /\ g.stopSeen)
       => /\ g'.nreads = g.nreads
          /\ fop'.image = fop.image
          /\ pc' = "done" => ret' = "true"]_vars

\* the image bound to an id in the sprite of the command
Bound(id) == getImageRef(cels, id) # NullImage

\* C6: after execute and after every redo the old id is unbound and the new
\* id is bound to an image with the pixels of the new image given to the
\* constructor; after every undo the new id is unbound and the old id is
\* bound to an image with the pixels the old image had before execute.
C6_ReplaceImageBindings ==
  /\ last.call \in {"execute", "redo"}
       => /\ ~Bound(cmd.m_oldImageId)
          /\ Bound(cmd.m_newImageId)
          /\ getImageRef(cels, cmd.m_newImageId).pix = last.new
  /\ last.call = "undo"
       => /\ ~Bound(cmd.m_newImageId)
          /\ Bound(cmd.m_oldImageId)
          /\ getImageRef(cels, cmd.m_oldImageId).pix = last.old

\* after a redo the new image, whose pixels differ from the old ones, is
\* bound again in a sprite of two cels
C6_Witness ==
  /\ last.call = "redo"
  /\ Len(cels) = 2
  /\ last.new # last.old
  /\ ~Bound(cmd.m_oldImageId)
  /\ getImageRef(cels, cmd.m_newImageId) =
       [id |-> cmd.m_newImageId, pix |-> last.new]

\* C7: from the construction of the command on, through execute, undo and
\* redo in the valid order, at most one of the old and the new id is bound,
\* and every ASSERT of onExecute, onUndo and onRedo held.
C7_AtMostOneBound ==
  last.call # "none"
  => /\ ~(Bound(cmd.m_oldImageId) /\ Bound(cmd.m_newImageId))
     /\ asserts

\* after an undo the old id alone is bound and no ASSERT failed
C7_Witness ==
  /\ last.call = "undo"
  /\ asserts
  /\ Bound(cmd.m_oldImageId)
  /\ ~Bound(cmd.m_newImageId)
  /\ cmd.m_copy = [id |-> 0, pix |-> last.new]

\* C8: when onLoad fails with a stream error it returns false and no image,
\* partly filled or not, is left in the FileOp.
C8_NoBufferAfterStreamError ==
  (pc = "done" /\ op = "load" /\ g.failure = "stream")
  => (ret = "false" /\ fop.image = NoImage)

\* C9: when onLoad or onSave has returned, on whatever path, it holds nothing
\* any more: no libpng struct, no row buffer, no palette array, no tRNS
\* table, no file handle.
C9_ResourcesReleased == pc = "done" => res = NoRes

\* C10: every failure of onLoad and onSave (creation of the libpng structs,
\* colour type, fop_sequence_image, stream error) returns false with an error
\* message in the FileOp.
C10_FailuresReported ==
  (pc = "done" /\ g.failure \in {"create_struct", "create_info", "color_type",
                                 "factory", "stream"})
  => (ret = "false" /\ fop.error # <<>>)

\* an indexed image that onSave wrote was loaded again to its last row
IndexedRoundTrip ==
  LoadCompleted /\ g.roundtrip /\ g.saved.format = "IMAGE_INDEXED"

\* C11: loading the file that onSave wrote from an indexed image, a palette
\* of 256 entries and a transparent colour m gives an image of the same width
\* and height whose every pixel is the index that was saved, and a palette
\* equal to the saved one; the transparent colour of the loading sprite is m
\* when the saved sprite had no background layer, and is what it was before
\* the load when the saved sprite had one.
C11_IndexedRoundTrip ==
  IndexedRoundTrip
  => /\ fop.image = g.saved
     /\ fop.palette = g.savedPalette
     /\ sprite.transparentColor =
          IF g.savedBackground THEN g.mask0 ELSE g.savedMask

\* a 2x2 image with pixels at the transparent colour 2 and at index 4 came
\* back with its palette, into a sprite whose transparent colour was 1
C11_Witness ==
  /\ IndexedRoundTrip
  /\ ~g.savedBackground /\ g.savedMask = 2 /\ g.mask0 = 1
  /\ g.saved.w = 2 /\ g.saved.h = 2
  /\ g.saved.rows[1] = <<2, 4>> /\ g.saved.rows[2] = <<4, 2>>
  /\ g.savedPalette = PaletteSample
  /\ fop.image = g.saved
  /\ fop.palette = PaletteSample
  /\ sprite.transparentColor = 2
====
